---- MODULE Spec2Model ----
(***************************************************************************)
(* A model of the reminders server (src/server.js) together with the       *)
(* sub-task routes of its earlier variant (src/unnamed/part_000).          *)
(*                                                                         *)
(* Time is counted in days: Date.now() is the variable `now`, which starts *)
(* at 1 (the clock is never at the epoch) and the recurrence intervals are *)
(* 1, 7 and 30.  A nullable value is a sequence: <<>> is null, <<v>> is v. *)
(* A request body is a record that holds exactly the fields the request    *)
(* supplies.  Text is a sequence of one-character strings.                 *)
(***************************************************************************)
EXTENDS Integers, Sequences, FiniteSets, TLC

VARIABLES
  phase,      \* "start" before loadData() has run, "running" after
  now,        \* Date.now(), in days
  folders,    \* the ids of the Map `folders`
  reminders,  \* the Map `reminders`: id -> reminder record
  tags,       \* the Map `tags`: tag -> count
  disk,       \* the content of DATA_FILE
  backups,    \* /data/backups: file name -> content
  pending,    \* backup.sh subprocesses spawned and not yet run
  res         \* the response to the last request

vars == <<phase, now, folders, reminders, tags, disk, backups, pending, res>>

mem == <<folders, reminders, tags>>

----------------------------------------------------------------------------
(* Bounds *)

MaxTime == 3

MaxProc == 2

MaxSub == 1

MaxList == 2

----------------------------------------------------------------------------
(* Values *)

Null == <<>>

Val(x) == <<x>>

\* The number NaN, which new Date(s).getTime() gives for a string s that is
\* not a date.
NaN == <<0, 0>>

\* JavaScript truthiness of a nullable number: null, NaN and 0 are falsy.
Truthy(v) == v # Null /\ v # NaN /\ v[1] # 0

Has(body, field) == field \in DOMAIN body

RemIds == {"r1", "r2"}

UnknownId == "zz"

SmartFolders == {"today", "scheduled", "all", "completed"}

UserFolders == {"f1"}

RECURRING_INTERVALS == [daily |-> 1, weekly |-> 7, monthly |-> 30]

\* The interval table without its monthly entry.
IntervalOfNoMonthly(recurring) ==
  IF recurring \in {"daily", "weekly"}
    THEN Val(RECURRING_INTERVALS[recurring])
    ELSE Null

\* RECURRING_INTERVALS[r.recurring]: undefined (falsy) for any other key.
IntervalOf(recurring) ==
  IF recurring \in DOMAIN RECURRING_INTERVALS
    THEN Val(RECURRING_INTERVALS[recurring])
    ELSE Null

EmptyMap == [x \in {} |-> 0]

----------------------------------------------------------------------------
(* Text: trim, extractTags, updateTags *)

Space == " "

WordChars == {"a", "A", "b"}

ToLower(c) == IF c = "A" THEN "a" ELSE c

RECURSIVE TrimLeft(_)
TrimLeft(s) ==
  IF s # <<>> /\ Head(s) = Space THEN TrimLeft(Tail(s)) ELSE s

RECURSIVE TrimRight(_)
TrimRight(s) ==
  IF s # <<>> /\ s[Len(s)] = Space
    THEN TrimRight(SubSeq(s, 1, Len(s) - 1))
    ELSE s

Trim(s) == TrimRight(TrimLeft(s))

\* The end of the run of word characters that starts at position i.
RECURSIVE WordEnd(_, _)
WordEnd(text, i) ==
  IF i + 1 <= Len(text) /\ text[i + 1] \in WordChars
    THEN WordEnd(text, i + 1)
    ELSE i

\* text.match(/#\w+/g) with every match lower-cased, from position i on.
RECURSIVE MatchTags(_, _)
MatchTags(text, i) ==
  IF i > Len(text) THEN <<>>
  ELSE IF text[i] = "#" /\ i + 1 <= Len(text) /\ text[i + 1] \in WordChars
    THEN LET e == WordEnd(text, i + 1)
         IN  <<[k \in 1..(e - i + 1) |-> ToLower(text[i + k - 1])]>>
               \o MatchTags(text, e + 1)
    ELSE MatchTags(text, i + 1)

extractTags(text) == IF text = <<>> THEN <<>> ELSE MatchTags(text, 1)

\* `${r.title} ${r.notes || ''}`
TagText(r) == r.title \o <<Space>> \o r.notes

Occurrences(seq, x) == Cardinality({i \in 1..Len(seq) : seq[i] = x})

RECURSIVE TagCount(_, _, _)
TagCount(rems, ids, tag) ==
  IF ids = {} THEN 0
  ELSE LET id == CHOOSE i \in ids : TRUE
       IN  Occurrences(extractTags(TagText(rems[id])), tag)
             + TagCount(rems, ids \ {id}, tag)

TagsOf(rems) ==
  UNION {{extractTags(TagText(rems[id]))[i] :
            i \in 1..Len(extractTags(TagText(rems[id])))} : id \in DOMAIN rems}

\* updateTags() without tags.clear(): the increments start from the counts
\* the map holds.
updateTagsUncleared(rems) ==
  [t \in TagsOf(rems) \cup DOMAIN tags |->
     (IF t \in DOMAIN tags THEN tags[t] ELSE 0) + TagCount(rems, DOMAIN rems, t)]

\* tags.clear(), then one increment per tag occurrence of every reminder.
updateTags(rems) ==
  [t \in TagsOf(rems) |-> TagCount(rems, DOMAIN rems, t)]

----------------------------------------------------------------------------
(* Persistent store *)

NoFile == [exists |-> FALSE]

\* A file that JSON.parse rejects: not JSON, or cut short.
CorruptFile == [exists |-> TRUE, json |-> FALSE]

\* A data file the process may neither read nor write: readFileSync and
\* writeFileSync throw.
LockedFile == [exists |-> TRUE, json |-> FALSE, locked |-> TRUE]

Locked(file) == "locked" \in DOMAIN file

\* One of the three entries of a document: absent (undefined), an array of
\* [key, value] pairs, or a value `new Map` throws on.
Absent == [kind |-> "absent"]

Entries(m) == [kind |-> "map", v |-> m]

Malformed == [kind |-> "bad"]

File(f, r, t) ==
  [exists |-> TRUE, json |-> TRUE, folders |-> f, reminders |-> r, tags |-> t]

\* JSON.stringify followed by JSON.parse of a reminder: NaN is written as
\* null; every other value of the model is read back as it was.
ToJSON(r) == [r EXCEPT !.dueDate = IF @ = NaN THEN Null ELSE @]

\* The document saveData() writes, as JSON.parse reads it back.
Document(f, r, t) ==
  File(Entries(f), Entries([id \in DOMAIN r |-> ToJSON(r[id])]), Entries(t))

\* new Map(entry || []) for an entry that is absent or an array of pairs.
ToMap(entry, empty) == IF entry.kind = "map" THEN entry.v ELSE empty

Throws(entry) == entry.kind = "bad"

----------------------------------------------------------------------------
(* Requests *)

Title == <<"#", "A">>

SubTitle == <<"b">>

\* A dueDate of a request body: null, a number, a date string that parses
\* to the instant t, or a string that is not a date.
DueNull == [kind |-> "null", t |-> 0]

DueNum(t) == [kind |-> "num", t |-> t]

DueStr(t) == [kind |-> "str", t |-> t]

DueBad == [kind |-> "bad", t |-> 0]

\* dueDate ? new Date(dueDate).getTime() : null
ParseDue(d) ==
  IF d.kind = "null" \/ (d.kind = "num" /\ d.t = 0) THEN Null
  ELSE IF d.kind = "bad" THEN NaN
  ELSE Val(d.t)

TruthyStr(v) == v # Null /\ v[1] # ""

Get(body, field, default) == IF Has(body, field) THEN body[field] ELSE default

BulkActions == {"complete", "uncomplete", "delete", "move"}

\* The response to a request: the route, the HTTP status and, for a bulk
\* request, the count it returns.
Reply(op, status) == [op |-> op, status |-> status, updated |-> 0]

----------------------------------------------------------------------------
(* saveData, backupData, loadData *)

NotSaved == UNCHANGED <<disk, pending>>

\* saveData() with no call of backupData().
SavedNoBackup ==
  IF Locked(disk)
    THEN NotSaved
    ELSE disk' = Document(folders', reminders', tags') /\ UNCHANGED pending

\* saveData(): write the three collections, then spawn backup.sh; a write
\* that throws is caught and backup.sh is not spawned.
Saved ==
  IF Locked(disk)
    THEN NotSaved
    ELSE /\ pending < MaxProc
         /\ disk' = Document(folders', reminders', tags')
         /\ pending' = pending + 1

DefaultFolders == SmartFolders

\* createDefaultFolders() with an empty list of defaults.
createNoFolders(f) == f

createDefaultFolders(f) == f \cup DefaultFolders

Readable(file) == file.exists /\ file.json

LoadCompletes(file) ==
  /\ Readable(file)
  /\ ~Throws(file.folders) /\ ~Throws(file.reminders) /\ ~Throws(file.tags)

\* loadData(): the collections after the try block.  An exception leaves the
\* assignments made before it in place.
LoadedFolders(file) ==
  IF Readable(file) /\ ~Throws(file.folders) THEN ToMap(file.folders, {}) ELSE {}

LoadedReminders(file) ==
  IF Readable(file) /\ ~Throws(file.folders) /\ ~Throws(file.reminders)
    THEN ToMap(file.reminders, EmptyMap)
    ELSE EmptyMap

LoadedTags(file) ==
  IF LoadCompletes(file) THEN ToMap(file.tags, EmptyMap) ELSE EmptyMap

\* loadData() at start-up, followed by the updateTags() of the listen callback.
LoadData ==
  /\ phase = "start"
  /\ phase' = "running"
  /\ reminders' = LoadedReminders(disk)
  /\ tags' = updateTags(reminders')
  /\ folders' = createDefaultFolders(LoadedFolders(disk) \cup {"inbox"})
  /\ IF "inbox" \notin LoadedFolders(disk) /\ ~Locked(disk)
       THEN /\ disk' = Document(LoadedFolders(disk) \cup {"inbox"}, reminders',
                                LoadedTags(disk))
            /\ pending' = pending + 1
       ELSE NotSaved
  /\ UNCHANGED <<now, backups, res>>

\* The clock advances, up to the instant limit.
Tick(limit) ==
  /\ now < limit
  /\ now' = now + 1
  /\ UNCHANGED <<phase, folders, reminders, tags, disk, backups, pending, res>>

\* setInterval(saveData, 30000)
AutoSave ==
  /\ phase = "running"
  /\ UNCHANGED <<phase, now, folders, reminders, tags, backups, res>>
  /\ Saved

\* writeFileSync seen from another process: the file is opened and cut to
\* length 0, and is whole again when the call returns.  In between no
\* handler or timer of the server runs.
BeginSave ==
  /\ phase = "running"
  /\ ~Locked(disk)
  /\ pending < MaxProc
  /\ phase' = "writing"
  /\ disk' = CorruptFile
  /\ UNCHANGED <<now, folders, reminders, tags, backups, pending, res>>

EndSave ==
  /\ phase = "writing"
  /\ phase' = "running"
  /\ disk' = Document(folders, reminders, tags)
  /\ pending' = pending + 1
  /\ UNCHANGED <<now, folders, reminders, tags, backups, res>>

\* setInterval(updateTags, ...), GET /api/tags and GET /api/stats
RefreshTags ==
  /\ phase = "running"
  /\ UNCHANGED <<phase, now, folders, reminders, disk, backups, pending, res>>
  /\ tags' = updateTags(reminders)

\* backup.sh: cp DATA_FILE to the backup named after the current time.  The
\* script discards cp's failure (2>/dev/null): copied tells whether cp wrote.
BackupRun(copied) ==
  /\ pending > 0
  /\ pending' = pending - 1
  /\ backups' = IF copied /\ disk.exists THEN (now :> disk) @@ backups ELSE backups
  /\ UNCHANGED <<phase, now, folders, reminders, tags, disk, res>>

----------------------------------------------------------------------------
(* Recurrence engine *)

\* The reset condition without the test of the elapsed time.
ShouldResetEager(r, t) ==
  /\ TruthyStr(r.recurring) /\ r.completed /\ Truthy(r.completedAt)
  /\ Truthy(IntervalOf(r.recurring[1]))

\* The condition under which processRecurringReminders() resets r at time t.
ShouldReset(r, t) ==
  /\ TruthyStr(r.recurring) /\ r.completed /\ Truthy(r.completedAt)
  /\ Truthy(IntervalOf(r.recurring[1]))
  /\ t - r.completedAt[1] >= IntervalOf(r.recurring[1])[1]

\* A reset that leaves the completion in place.
ResetReminderKeepsCompletion(r, t) ==
  [r EXCEPT !.createdAt = t,
            !.dueDate = IF Truthy(@)
                          THEN Val(@[1] + IntervalOf(r.recurring[1])[1])
                          ELSE @]

ResetReminder(r, t) ==
  [r EXCEPT !.completed = FALSE,
            !.completedAt = Null,
            !.createdAt = t,
            !.dueDate = IF Truthy(@)
                          THEN Val(@[1] + IntervalOf(r.recurring[1])[1])
                          ELSE @]

processRecurringReminders(rems, t) ==
  [id \in DOMAIN rems |->
     IF ShouldReset(rems[id], t) THEN ResetReminder(rems[id], t) ELSE rems[id]]

\* setInterval(processRecurringReminders, one hour)
Sweep ==
  /\ phase = "running"
  /\ UNCHANGED <<phase, now, folders, tags, backups, res>>
  /\ reminders' = processRecurringReminders(reminders, now)
  /\ IF \E id \in DOMAIN reminders : ShouldReset(reminders[id], now)
       THEN Saved
       ELSE NotSaved

----------------------------------------------------------------------------
(* Folders *)

\* POST /api/folders
PostFolder(body) ==
  /\ phase = "running"
  /\ UNCHANGED <<phase, now, reminders, tags, backups>>
  /\ IF ~Has(body, "name") \/ Trim(body.name) = <<>>
       THEN /\ res' = Reply("POST /api/folders", 400)
            /\ UNCHANGED <<folders, disk, pending>>
       ELSE /\ \E id \in UserFolders \ folders : folders' = folders \cup {id}
            /\ res' = Reply("POST /api/folders", 200)
            /\ Saved

\* DELETE /api/folders/:id without the reassignment of the folder's reminders.
DeleteFolderOnly(id) ==
  /\ phase = "running"
  /\ UNCHANGED <<phase, now, tags, backups, reminders>>
  /\ IF id = "inbox"
       THEN /\ res' = Reply("DELETE /api/folders/:id", 400)
            /\ UNCHANGED <<folders, disk, pending>>
       ELSE /\ folders' = folders \ {id}
            /\ res' = Reply("DELETE /api/folders/:id", 200)
            /\ Saved

\* DELETE /api/folders/:id
DeleteFolder(id) ==
  /\ phase = "running"
  /\ UNCHANGED <<phase, now, tags, backups>>
  /\ IF id = "inbox"
       THEN /\ res' = Reply("DELETE /api/folders/:id", 400)
            /\ UNCHANGED <<folders, reminders, disk, pending>>
       ELSE /\ reminders' =
                 [r \in DOMAIN reminders |->
                    IF reminders[r].folderId = id
                      THEN [reminders[r] EXCEPT !.folderId = "inbox"]
                      ELSE reminders[r]]
            /\ folders' = folders \ {id}
            /\ res' = Reply("DELETE /api/folders/:id", 200)
            /\ Saved

----------------------------------------------------------------------------
(* Reminders *)

\* `${id}-sub-${i}`
SubId(id, i) == <<id, i>>

NonEmptyTitle(st) == st.title # <<>>

\* subtasks.map(...).filter(st => st.title) of POST /api/reminders
NewSubtasks(id, input) ==
  SelectSeq([i \in 1..Len(input) |->
               [id |-> SubId(id, i - 1),
                title |-> IF Has(input[i], "title") /\ input[i].title # <<>>
                            THEN Trim(input[i].title) ELSE <<>>,
                completed |-> Has(input[i], "completed") /\ input[i].completed]],
            NonEmptyTitle)

\* subtasks.map(...).filter(st => st.title) of PATCH /api/reminders/:id
PatchedSubtasks(id, input) ==
  SelectSeq([i \in 1..Len(input) |->
               [id |-> IF Has(input[i], "id") THEN input[i].id ELSE SubId(id, i - 1),
                title |-> IF Has(input[i], "title") /\ input[i].title # <<>>
                            THEN Trim(input[i].title) ELSE <<>>,
                completed |-> Has(input[i], "completed") /\ input[i].completed]],
            NonEmptyTitle)

NewReminder(id, body, t) ==
  [title |-> Trim(body.title),
   notes |-> Trim(Get(body, "notes", <<>>)),
   folderId |-> Get(body, "folderId", "inbox"),
   completed |-> FALSE,
   dueDate |-> ParseDue(Get(body, "dueDate", DueNull)),
   priority |-> Get(body, "priority", "normal"),
   recurring |-> IF TruthyStr(Get(body, "recurring", Null))
                   THEN body.recurring ELSE Null,
   subtasks |-> NewSubtasks(id, Get(body, "subtasks", <<>>)),
   createdAt |-> t,
   completedAt |-> Null]

\* POST /api/reminders
PostReminder(pool, body) ==
  /\ phase = "running"
  /\ UNCHANGED <<phase, now, folders, backups>>
  /\ IF ~Has(body, "title") \/ Trim(body.title) = <<>>
       THEN /\ res' = Reply("POST /api/reminders", 400)
            /\ UNCHANGED <<reminders, tags, disk, pending>>
       ELSE /\ \E id \in pool \ DOMAIN reminders :
                 reminders' = (id :> NewReminder(id, body, now)) @@ reminders
            /\ tags' = updateTags(reminders')
            /\ res' = Reply("POST /api/reminders", 200)
            /\ Saved

\* PatchCompleted with the completion time written whatever the new flag is.
PatchCompletedStamped(r, body, t) ==
  IF Has(body, "completed") /\ body.completed # r.completed
    THEN [r EXCEPT !.completed = body.completed, !.completedAt = Val(t)]
    ELSE r

\* The completed / completedAt update of PATCH /api/reminders/:id.
PatchCompleted(r, body, t) ==
  IF Has(body, "completed") /\ body.completed # r.completed
    THEN [r EXCEPT !.completed = body.completed,
                   !.completedAt = IF body.completed THEN Val(t) ELSE Null]
    ELSE r

PatchFields(r, body) ==
  [r EXCEPT !.title = IF Has(body, "title") THEN Trim(body.title) ELSE @,
            !.notes = IF Has(body, "notes") THEN Trim(body.notes) ELSE @,
            !.folderId = IF Has(body, "folderId") THEN body.folderId ELSE @,
            !.dueDate = IF Has(body, "dueDate") THEN ParseDue(body.dueDate) ELSE @,
            !.priority = IF Has(body, "priority") THEN body.priority ELSE @,
            !.recurring = IF Has(body, "recurring") THEN body.recurring ELSE @]

Patched(id, r, body, t) ==
  LET fields == PatchCompleted(PatchFields(r, body), body, t)
  IN  IF Has(body, "subtasks")
        THEN [fields EXCEPT !.subtasks = PatchedSubtasks(id, body.subtasks)]
        ELSE fields

\* PATCH /api/reminders/:id
PatchReminder(id, body) ==
  /\ phase = "running"
  /\ UNCHANGED <<phase, now, folders, backups>>
  /\ IF id \notin DOMAIN reminders
       THEN /\ res' = Reply("PATCH /api/reminders/:id", 404)
            /\ UNCHANGED <<reminders, tags, disk, pending>>
       ELSE /\ reminders' =
                 [reminders EXCEPT ![id] = Patched(id, reminders[id], body, now)]
            /\ tags' = updateTags(reminders')
            /\ res' = Reply("PATCH /api/reminders/:id", 200)
            /\ Saved

\* The order in which the PATCH handler processes the fields of the body.
PatchOrder ==
  <<"title", "notes", "folderId", "dueDate", "priority", "recurring",
    "completed", "subtasks">>

\* The fields whose value the handler calls a method on: title.trim(),
\* notes.trim() and subtasks.map(), which throw a TypeError when the value
\* is not a string, or not an array.
Throwing == {"title", "notes", "subtasks"}

\* The fields of the body that the handler has processed when it reaches
\* the field bad.
Before(body, bad) ==
  LET n == CHOOSE i \in 1..Len(PatchOrder) : PatchOrder[i] = bad
      done == { PatchOrder[i] : i \in 1..(n - 1) } \cap DOMAIN body
  IN  [f \in done |-> body[f]]

\* PATCH /api/reminders/:id with the fields of body and, besides them, a
\* field bad whose value is of a type the handler cannot process: the
\* exception leaves the assignments made before it in the stored object,
\* skips updateTags() and saveData(), and Express answers 500.
PatchReminderThrows(id, body, bad) ==
  /\ phase = "running"
  /\ bad \in Throwing \ DOMAIN body
  /\ UNCHANGED <<phase, now, folders, backups, tags, disk, pending>>
  /\ IF id \notin DOMAIN reminders
       THEN /\ res' = Reply("PATCH /api/reminders/:id", 404)
            /\ UNCHANGED reminders
       ELSE /\ reminders' =
                 [reminders EXCEPT ![id] =
                    Patched(id, reminders[id], Before(body, bad), now)]
            /\ res' = Reply("PATCH /api/reminders/:id", 500)

Without(rems, id) == [x \in DOMAIN rems \ {id} |-> rems[x]]

\* DELETE /api/reminders/:id
DeleteReminder(id) ==
  /\ phase = "running"
  /\ UNCHANGED <<phase, now, folders, backups>>
  /\ reminders' = Without(reminders, id)
  /\ tags' = updateTags(reminders')
  /\ res' = Reply("DELETE /api/reminders/:id", 200)
  /\ Saved

\* GET /api/reminders/:id
GetReminder(id) ==
  /\ phase = "running"
  /\ res' = Reply("GET /api/reminders/:id",
                  IF id \in DOMAIN reminders THEN 200 ELSE 404)
  /\ UNCHANGED <<phase, now, folders, reminders, tags, disk, backups, pending>>

----------------------------------------------------------------------------
(* Bulk operations *)

\* The switch with a delete case that does not count.
BulkCaseDeleteUncounted(acc, id, body, t) ==
  IF body.action = "complete"
    THEN [rems |-> [acc.rems EXCEPT ![id].completed = TRUE,
                                    ![id].completedAt = Val(t)],
          updated |-> acc.updated + 1]
  ELSE IF body.action = "uncomplete"
    THEN [rems |-> [acc.rems EXCEPT ![id].completed = FALSE,
                                    ![id].completedAt = Null],
          updated |-> acc.updated + 1]
  ELSE IF body.action = "delete"
    THEN [rems |-> Without(acc.rems, id), updated |-> acc.updated]
  ELSE IF body.action = "move" /\ Has(body, "folderId")
    THEN [rems |-> [acc.rems EXCEPT ![id].folderId = body.folderId],
          updated |-> acc.updated + 1]
  ELSE acc

\* The switch of the forEach callback, for an id found in the collection.
\* acc is the collection and the count so far.
BulkCase(acc, id, body, t) ==
  IF body.action = "complete"
    THEN [rems |-> [acc.rems EXCEPT ![id].completed = TRUE,
                                    ![id].completedAt = Val(t)],
          updated |-> acc.updated + 1]
  ELSE IF body.action = "uncomplete"
    THEN [rems |-> [acc.rems EXCEPT ![id].completed = FALSE,
                                    ![id].completedAt = Null],
          updated |-> acc.updated + 1]
  ELSE IF body.action = "delete"
    THEN [rems |-> Without(acc.rems, id), updated |-> acc.updated + 1]
  ELSE IF body.action = "move" /\ Has(body, "folderId")
    THEN [rems |-> [acc.rems EXCEPT ![id].folderId = body.folderId],
          updated |-> acc.updated + 1]
  ELSE acc

\* ids.forEach(...), from position i on.
RECURSIVE BulkEach(_, _, _, _)
BulkEach(acc, i, body, t) ==
  IF i > Len(body.ids) THEN acc
  ELSE IF body.ids[i] \notin DOMAIN acc.rems
    THEN BulkEach(acc, i + 1, body, t)
    ELSE BulkEach(BulkCase(acc, body.ids[i], body, t), i + 1, body, t)

Bulk(rems, body, t) == BulkEach([rems |-> rems, updated |-> 0], 1, body, t)

\* POST /api/bulk
PostBulk(body) ==
  /\ phase = "running"
  /\ UNCHANGED <<phase, now, folders, backups>>
  /\ IF Len(body.ids) = 0
       THEN /\ res' = Reply("POST /api/bulk", 400)
            /\ UNCHANGED <<reminders, tags, disk, pending>>
       ELSE /\ reminders' = Bulk(reminders, body, now).rems
            /\ res' = [op |-> "POST /api/bulk", status |-> 200,
                       updated |-> Bulk(reminders, body, now).updated]
            /\ IF Bulk(reminders, body, now).updated > 0
                 THEN tags' = updateTags(reminders') /\ Saved
                 ELSE UNCHANGED <<tags, disk, pending>>

API_SECRET == "assistant-secret-key"

Secrets == {API_SECRET, "guess"}

\* POST /api/external/bulk
ExternalBulk(secret, body) ==
  /\ phase = "running"
  /\ UNCHANGED <<phase, now, folders, tags, backups>>
  /\ IF secret # API_SECRET
       THEN /\ res' = Reply("POST /api/external/bulk", 401)
            /\ UNCHANGED <<reminders, disk, pending>>
       ELSE IF Len(body.ids) = 0
         THEN /\ res' = Reply("POST /api/external/bulk", 400)
              /\ UNCHANGED <<reminders, disk, pending>>
         ELSE /\ reminders' = Bulk(reminders, body, now).rems
              /\ res' = [op |-> "POST /api/external/bulk", status |-> 200,
                         updated |-> Bulk(reminders, body, now).updated]
              /\ IF Bulk(reminders, body, now).updated > 0
                   THEN Saved
                   ELSE NotSaved

\* The reminder built by POST /api/external/reminder.
AssistantReminder(body, t) ==
  [title |-> Trim(body.title),
   notes |-> Trim(Get(body, "notes", <<>>)),
   folderId |-> "inbox",
   completed |-> FALSE,
   dueDate |-> ParseDue(Get(body, "dueDate", DueNull)),
   priority |-> Get(body, "priority", "normal"),
   recurring |-> IF TruthyStr(Get(body, "recurring", Null))
                   THEN body.recurring ELSE Null,
   subtasks |-> <<>>,
   createdAt |-> t,
   completedAt |-> Null,
   source |-> "assistant"]

\* POST /api/external/reminder
ExternalReminder(secret, pool, body) ==
  /\ phase = "running"
  /\ UNCHANGED <<phase, now, folders, backups>>
  /\ IF secret # API_SECRET
       THEN /\ res' = Reply("POST /api/external/reminder", 401)
            /\ UNCHANGED <<reminders, tags, disk, pending>>
       ELSE IF ~Has(body, "title") \/ body.title = <<>> \/ Trim(body.title) = <<>>
         THEN /\ res' = Reply("POST /api/external/reminder", 400)
              /\ UNCHANGED <<reminders, tags, disk, pending>>
         ELSE /\ \E id \in pool \ DOMAIN reminders :
                   reminders' = (id :> AssistantReminder(body, now)) @@ reminders
              /\ tags' = updateTags(reminders')
              /\ res' = Reply("POST /api/external/reminder", 200)
              /\ Saved

----------------------------------------------------------------------------
(* Sub-tasks (src/unnamed/part_000: no tag update, no save) *)

SubtaskBodies == { [title |-> SubTitle], [title |-> <<Space>>], EmptyMap }

SubtaskPatches ==
  { [completed |-> TRUE], [completed |-> FALSE], [title |-> SubTitle] }

\* POST /api/reminders/:id/subtasks, for lists of fewer than cap sub-tasks
AddSubtask(id, body, cap) ==
  /\ phase = "running"
  /\ UNCHANGED <<phase, now, folders, tags, disk, backups, pending>>
  /\ IF id \notin DOMAIN reminders
       THEN res' = Reply("POST /api/reminders/:id/subtasks", 404) /\ UNCHANGED reminders
       ELSE IF ~Has(body, "title") \/ Trim(body.title) = <<>>
         THEN res' = Reply("POST /api/reminders/:id/subtasks", 400) /\ UNCHANGED reminders
         ELSE /\ Len(reminders[id].subtasks) < cap
              /\ reminders' =
                   [reminders EXCEPT ![id].subtasks =
                      Append(@, [id |-> SubId(id, Len(@)),
                                 title |-> Trim(body.title),
                                 completed |-> FALSE])]
              /\ res' = Reply("POST /api/reminders/:id/subtasks", 200)

PostSubtask(id, body) == AddSubtask(id, body, MaxSub)

\* reminder.subtasks.find(st => st.id === subId): 0 when there is none.
FindSubtask(subs, subId) ==
  IF \E i \in 1..Len(subs) : subs[i].id = subId
    THEN CHOOSE i \in 1..Len(subs) :
           subs[i].id = subId /\ \A j \in 1..(i - 1) : subs[j].id # subId
    ELSE 0

PatchedSubtask(st, body) ==
  [st EXCEPT !.title = IF Has(body, "title") THEN Trim(body.title) ELSE @,
             !.completed = IF Has(body, "completed") THEN body.completed ELSE @]

\* The sub-task PATCH without the completion of the parent.
AutoCompleteNever(r, t) == r

\* Auto-complete parent if all subtasks done.
AutoComplete(r, t) ==
  IF Len(r.subtasks) > 0 /\ \A i \in 1..Len(r.subtasks) : r.subtasks[i].completed
    THEN [r EXCEPT !.completed = TRUE, !.completedAt = Val(t)]
    ELSE r

\* PATCH /api/reminders/:id/subtasks/:subId
PatchSubtask(id, subId, body) ==
  /\ phase = "running"
  /\ UNCHANGED <<phase, now, folders, tags, disk, backups, pending>>
  /\ IF id \notin DOMAIN reminders
       THEN res' = Reply("PATCH /api/reminders/:id/subtasks/:subId", 404) /\ UNCHANGED reminders
       ELSE IF FindSubtask(reminders[id].subtasks, subId) = 0
         THEN res' = Reply("PATCH /api/reminders/:id/subtasks/:subId", 404) /\ UNCHANGED reminders
         ELSE /\ reminders' =
                   [reminders EXCEPT ![id] =
                      AutoComplete(
                        [@ EXCEPT !.subtasks[FindSubtask(@.subtasks, subId)] =
                                     PatchedSubtask(@, body)],
                        now)]
              /\ res' = Reply("PATCH /api/reminders/:id/subtasks/:subId", 200)

\* DELETE /api/reminders/:id/subtasks/:subId
DeleteSubtask(id, subId) ==
  /\ phase = "running"
  /\ UNCHANGED <<phase, now, folders, tags, disk, backups, pending>>
  /\ IF id \notin DOMAIN reminders
       THEN res' = Reply("DELETE /api/reminders/:id/subtasks/:subId", 404) /\ UNCHANGED reminders
       ELSE /\ reminders' =
                 [reminders EXCEPT ![id].subtasks =
                    SelectSeq(@, LAMBDA st : st.id # subId)]
            /\ res' = Reply("DELETE /api/reminders/:id/subtasks/:subId", 200)

----------------------------------------------------------------------------
(* Restore *)

AllDefaults == {"inbox"} \cup SmartFolders

\* The backup directory at start-up: an older backup, three documents that
\* are damaged in one entry each, one with no folders entry, and a file
\* that is not JSON.  Older backups carry timestamps before the clock's start.
OldReminder ==
  [title |-> Title, notes |-> <<>>, folderId |-> "f1", completed |-> FALSE,
   dueDate |-> Null, priority |-> "normal", recurring |-> Null,
   subtasks |-> <<>>, createdAt |-> 1, completedAt |-> Null]

OldBackups ==
  (0 :> Document(AllDefaults \cup UserFolders, "r1" :> OldReminder,
                 updateTags("r1" :> OldReminder)))
    @@ (-1 :> File(Entries(AllDefaults \cup UserFolders), Malformed, Entries(EmptyMap)))
    @@ (-2 :> File(Entries(AllDefaults), Entries(EmptyMap), Malformed))
    @@ (-3 :> File(Malformed, Entries(EmptyMap), Entries(EmptyMap)))
    @@ (-4 :> File(Absent, Entries(EmptyMap), Entries(EmptyMap)))
    @@ (-5 :> CorruptFile)

BackupNames == (-6)..MaxTime

RestoreBodies == {EmptyMap} \cup { [backupFile |-> n] : n \in BackupNames }

\* The try block of POST /api/restore on a file that exists: the three
\* assignments in order, each kept when a later statement throws.
RestoreFrom(file) ==
  /\ folders' = IF Readable(file) /\ ~Throws(file.folders)
                  THEN ToMap(file.folders, {}) ELSE folders
  /\ reminders' = IF Readable(file) /\ ~Throws(file.folders)
                       /\ ~Throws(file.reminders)
                    THEN ToMap(file.reminders, EmptyMap) ELSE reminders
  /\ tags' = IF LoadCompletes(file) THEN ToMap(file.tags, EmptyMap) ELSE tags
  /\ IF LoadCompletes(file)
       THEN res' = Reply("POST /api/restore", 200) /\ Saved
       ELSE res' = Reply("POST /api/restore", 500) /\ NotSaved

\* POST /api/restore without the existsSync check: reading a missing file
\* throws inside the try block.
PostRestoreUnchecked(body) ==
  /\ phase = "running"
  /\ UNCHANGED <<phase, now, backups>>
  /\ IF ~Has(body, "backupFile")
       THEN /\ res' = Reply("POST /api/restore", 400)
            /\ UNCHANGED <<folders, reminders, tags, disk, pending>>
       ELSE IF body.backupFile \notin DOMAIN backups
         THEN RestoreFrom(NoFile)
         ELSE RestoreFrom(backups[body.backupFile])

\* POST /api/restore
PostRestore(body) ==
  /\ phase = "running"
  /\ UNCHANGED <<phase, now, backups>>
  /\ IF ~Has(body, "backupFile")
       THEN /\ res' = Reply("POST /api/restore", 400)
            /\ UNCHANGED <<folders, reminders, tags, disk, pending>>
       ELSE IF body.backupFile \notin DOMAIN backups
         THEN /\ res' = Reply("POST /api/restore", 404)
              /\ UNCHANGED <<folders, reminders, tags, disk, pending>>
         ELSE RestoreFrom(backups[body.backupFile])

----------------------------------------------------------------------------
(* The system *)

InitialFiles == {NoFile, CorruptFile}

Init ==
  /\ phase = "start"
  /\ now = 1
  /\ folders = {}
  /\ reminders = EmptyMap
  /\ tags = EmptyMap
  /\ disk \in InitialFiles
  /\ backups = OldBackups
  /\ pending = 0
  /\ res = Reply("", 0)

SubIds(ids) == { SubId(id, i) : id \in ids, i \in 0..MaxSub }

----------------------------------------------------------------------------
(* Spec: the life of one reminder under every handler that writes its       *)
(* completion state, with the recurrence sweep and the clock.  Nothing here *)
(* reads the backup directory, and backup.sh's copy is left out (cp fails). *)

OneId == {"r1"}

LifeTargets == OneId \cup {UnknownId}

LifeCreates ==
  { [title |-> Title],
    [title |-> Title, dueDate |-> DueStr(5), recurring |-> Val("daily")],
    [title |-> Title, subtasks |-> <<[title |-> SubTitle, completed |-> FALSE]>>],
    [title |-> <<Space>>],
    EmptyMap }

LifePatches ==
  { [completed |-> TRUE],
    [completed |-> FALSE],
    [recurring |-> Val("daily")],
    [subtasks |-> <<>>] }

LifeIdLists == { <<>>, <<"r1">>, <<UnknownId>>, <<"r1", UnknownId>>, <<"r1", "r1">> }

LifeBulks ==
  { [action |-> a, ids |-> l] : a \in BulkActions, l \in LifeIdLists }
    \cup { [action |-> "move", ids |-> l, folderId |-> "f1"] : l \in LifeIdLists }

Next ==
  \/ LoadData
  \/ Tick(MaxTime)
  \/ Sweep
  \/ AutoSave
  \/ RefreshTags
  \/ BackupRun(FALSE)
  \/ \E body \in LifeCreates : PostReminder(OneId, body)
  \/ \E id \in LifeTargets, body \in LifePatches : PatchReminder(id, body)
  \/ \E id \in LifeTargets : DeleteReminder(id)
  \/ \E body \in LifeBulks : PostBulk(body)
  \/ \E secret \in Secrets, body \in LifeBulks : ExternalBulk(secret, body)
  \/ \E id \in LifeTargets, body \in SubtaskBodies : PostSubtask(id, body)
  \/ \E id \in LifeTargets, subId \in SubIds(OneId), body \in SubtaskPatches :
       PatchSubtask(id, subId, body)
  \/ \E id \in LifeTargets, subId \in SubIds(OneId) : DeleteSubtask(id, subId)
  \/ \E id \in UserFolders : DeleteFolder(id)

Spec == Init /\ [][Next]_vars

----------------------------------------------------------------------------
(* StoreSpec: folders, the folder of each reminder, backup and restore.     *)

StoreCreates ==
  { [title |-> Title], [title |-> Title, folderId |-> "f1"], EmptyMap }

FolderBodies == { [name |-> <<"b">>], [name |-> <<Space>>], EmptyMap }

StoreNext ==
  \/ LoadData
  \/ \E copied \in BOOLEAN : BackupRun(copied)
  \/ \E body \in FolderBodies : PostFolder(body)
  \/ \E id \in UserFolders \cup {"inbox", UnknownId} : DeleteFolder(id)
  \/ \E body \in StoreCreates : PostReminder(RemIds, body)
  \/ \E body \in RestoreBodies : PostRestore(body)

StoreSpec == Init /\ [][StoreNext]_vars

----------------------------------------------------------------------------
(* BulkSpec: the two bulk endpoints over a collection of two reminders.     *)

BulkIds == RemIds \cup {UnknownId}

BulkIdLists ==
  UNION { [1..n -> BulkIds] : n \in 0..2 }
    \cup { <<"r1", "r2", UnknownId>>, <<UnknownId, "r2", "r2">> }

BulkBodies ==
  { [action |-> a, ids |-> l] : a \in BulkActions, l \in BulkIdLists }
    \cup { [action |-> "move", ids |-> l, folderId |-> "f1"] : l \in BulkIdLists }

ExternalBodies ==
  { b \in BulkBodies : Len(b.ids) <= 1 \/ b.ids = <<"r1", "r2", UnknownId>> }

BulkNext ==
  \/ LoadData
  \/ BackupRun(FALSE)
  \/ \E body \in {[title |-> Title]} : PostReminder(RemIds, body)
  \/ \E body \in BulkBodies : PostBulk(body)
  \/ \E secret \in Secrets, body \in ExternalBodies : ExternalBulk(secret, body)

BulkSpec == Init /\ [][BulkNext]_vars

----------------------------------------------------------------------------
(* SweepSpec: the recurrence sweep as a function of the collection and the  *)
(* time.  The collection holds one reminder of any recurrence kind, created *)
(* at time 1 and either incomplete or completed at a time up to the        *)
(* current one; the clock runs past the longest interval.                   *)

Horizon == MaxTime + RECURRING_INTERVALS.monthly + 1

Recurrences ==
  {Null, Val("daily"), Val("weekly"), Val("monthly"), Val("yearly")}

SweepReminders ==
  { [OldReminder EXCEPT !.folderId = "inbox", !.recurring = k, !.dueDate = d,
                        !.completed = (c # Null), !.completedAt = c] :
      k \in Recurrences,
      d \in {Null, Val(0), Val(5)},
      c \in {Null} \cup { Val(t) : t \in 1..MaxTime } }

SweepInit ==
  /\ phase = "running"
  /\ now \in 1..MaxTime
  /\ folders = AllDefaults
  /\ reminders \in { "r1" :> r : r \in { x \in SweepReminders :
                         x.completedAt = Null \/ x.completedAt[1] <= now } }
  /\ tags = updateTags(reminders)
  /\ disk = Document(folders, reminders, tags)
  /\ backups = OldBackups
  /\ pending = 0
  /\ res = Reply("", 0)

SweepNext ==
  \/ Tick(Horizon)
  \/ Sweep
  \/ BackupRun(FALSE)

SweepSpec == SweepInit /\ [][SweepNext]_vars

----------------------------------------------------------------------------
(* FrameSpec: the sweep over a collection of two reminders as a data file   *)
(* can hold them: the first of any recurrence kind with completed and       *)
(* completedAt set independently, the second completed at time 1.           *)

FrameReminders ==
  { [OldReminder EXCEPT !.folderId = "inbox", !.recurring = k, !.dueDate = d,
                        !.completed = b, !.completedAt = c] :
      k \in Recurrences,
      d \in {Null, Val(5)},
      b \in BOOLEAN,
      c \in {Null} \cup { Val(t) : t \in 1..MaxTime } }

FrameSeconds ==
  { [OldReminder EXCEPT !.folderId = "inbox", !.recurring = k,
                        !.completed = TRUE, !.completedAt = Val(1)] :
      k \in {Null, Val("weekly")} }

FrameInit ==
  /\ phase = "running"
  /\ now \in 1..MaxTime
  /\ folders = AllDefaults
  /\ reminders \in { ("r1" :> x) @@ ("r2" :> y) :
                       x \in { r \in FrameReminders :
                                 r.completedAt = Null \/ r.completedAt[1] <= now },
                       y \in FrameSeconds }
  /\ tags = updateTags(reminders)
  /\ disk = Document(folders, reminders, tags)
  /\ backups = OldBackups
  /\ pending = 0
  /\ res = Reply("", 0)

FrameNext ==
  \/ Tick(Horizon)
  \/ Sweep
  \/ BackupRun(FALSE)

FrameSpec == FrameInit /\ [][FrameNext]_vars

----------------------------------------------------------------------------
(* LiveSpec: the sweep under fairness.  The hourly timer keeps firing, the  *)
(* clock keeps advancing and a spawned backup.sh runs to its end; the       *)
(* reminder is completed again only up to MaxTime, so that the clock's      *)
(* last instant is past every interval.                                     *)

Complete(id) ==
  /\ now <= MaxTime
  /\ PatchReminder(id, [completed |-> TRUE])

LiveNext ==
  \/ Tick(Horizon)
  \/ Sweep
  \/ BackupRun(FALSE)
  \/ \E id \in OneId : Complete(id)

LiveSpec ==
  /\ SweepInit
  /\ [][LiveNext]_vars
  /\ WF_vars(Tick(Horizon))
  /\ WF_vars(Sweep)
  /\ WF_vars(BackupRun(FALSE))

----------------------------------------------------------------------------
(* Listing *)

\* const p = { high: 0, normal: 1, low: 2 }
p == [high |-> 0, normal |-> 1, low |-> 2]

\* The comparator of the two listings.  p[x] is undefined for a priority
\* that is not a key of p, and the difference is then NaN.
cmp(a, b) ==
  IF a.completed # b.completed THEN Val(IF a.completed THEN 1 ELSE -1)
  ELSE IF a.priority # b.priority
    THEN IF a.priority \in DOMAIN p /\ b.priority \in DOMAIN p
           THEN Val(p[a.priority] - p[b.priority])
           ELSE NaN
  ELSE IF Truthy(a.dueDate) /\ Truthy(b.dueDate)
    THEN Val(a.dueDate[1] - b.dueDate[1])
  ELSE IF Truthy(a.dueDate) THEN Val(-1)
  ELSE IF Truthy(b.dueDate) THEN Val(1)
  ELSE Val(b.createdAt - a.createdAt)

\* Array.prototype.sort's use of the comparator: NaN counts as 0.
SortCompare(a, b) == IF cmp(a, b) = NaN THEN 0 ELSE cmp(a, b)[1]

\* Node 18 sorts an array of fewer than 64 elements by finding the run the
\* array starts with and inserting the remaining elements by binary search.
Reverse(list) == [i \in 1..Len(list) |-> list[Len(list) + 1 - i]]

\* The length of the run that starts the list, i being the next position.
RECURSIVE RunLength(_, _, _)
RunLength(list, i, descending) ==
  IF i > Len(list) THEN i - 1
  ELSE IF descending /\ SortCompare(list[i], list[i - 1]) >= 0 THEN i - 1
  ELSE IF ~descending /\ SortCompare(list[i], list[i - 1]) < 0 THEN i - 1
  ELSE RunLength(list, i + 1, descending)

\* The list with its first run made ascending, and the run's length.
CountAndMakeRun(list) ==
  LET descending == SortCompare(list[2], list[1]) < 0
      n == RunLength(list, 3, descending)
  IN  [n |-> n,
       list |-> IF descending
                  THEN Reverse(SubSeq(list, 1, n)) \o SubSeq(list, n + 1, Len(list))
                  ELSE list]

\* The position, counted from 0, at which the pivot goes among the first
\* `right` elements.
RECURSIVE Bisect(_, _, _, _)
Bisect(list, pivot, left, right) ==
  IF left >= right THEN left
  ELSE LET mid == left + ((right - left) \div 2)
       IN  IF SortCompare(pivot, list[mid + 1]) < 0
             THEN Bisect(list, pivot, left, mid)
             ELSE Bisect(list, pivot, mid + 1, right)

RECURSIVE BinaryInsertionSort(_, _)
BinaryInsertionSort(list, start) ==
  IF start >= Len(list) THEN list
  ELSE LET pivot == list[start + 1]
           left == Bisect(list, pivot, 0, start)
       IN  BinaryInsertionSort(
             SubSeq(list, 1, left) \o <<pivot>> \o SubSeq(list, left + 1, start)
               \o SubSeq(list, start + 2, Len(list)),
             start + 1)

\* list.sort(comparator)
Sort(list) ==
  IF Len(list) < 2 THEN list
  ELSE BinaryInsertionSort(CountAndMakeRun(list).list, CountAndMakeRun(list).n)

\* The orders in which a Map with these ids can hold them: the ids are
\* random, so every insertion order occurs.
Orders(ids) ==
  { o \in [1..Cardinality(ids) -> ids] : \A i, j \in DOMAIN o : i # j => o[i] # o[j] }

\* The folder and completed filters, then the sort; the result as ids.
Listing(order, query) ==
  LET keep(id) ==
        /\ Has(query, "folder") => reminders[id].folderId = query.folder
        /\ Has(query, "completed") =>
             reminders[id].completed = (query.completed = "true")
      list == SelectSeq(order, keep)
      sorted == Sort([i \in 1..Len(list) |-> [id |-> list[i]] @@ reminders[list[i]]])
  IN  [i \in 1..Len(sorted) |-> sorted[i].id]

Queries == { EmptyMap, [completed |-> "false"] }

Listed200(op, list) == [op |-> op, status |-> 200, updated |-> 0, list |-> list]

\* GET /api/reminders
GetReminders(order, query) ==
  /\ phase = "running"
  /\ order \in Orders(DOMAIN reminders)
  /\ res' = Listed200("GET /api/reminders", Listing(order, query))
  /\ UNCHANGED <<phase, now, folders, reminders, tags, disk, backups, pending>>

\* GET /api/external/reminders
GetExternalReminders(secret, order, query) ==
  /\ phase = "running"
  /\ order \in Orders(DOMAIN reminders)
  /\ res' = IF secret # API_SECRET
              THEN Reply("GET /api/external/reminders", 401)
              ELSE Listed200("GET /api/external/reminders", Listing(order, query))
  /\ UNCHANGED <<phase, now, folders, reminders, tags, disk, backups, pending>>

----------------------------------------------------------------------------
(* LoadSpec: start-up on any data file, and the server stopped and started  *)
(* again on the document its last save wrote.                               *)

\* The process ends and node runs the module again: the three collections
\* are new empty Maps and loadData() is about to run.
Restart ==
  /\ phase = "running"
  /\ phase' = "start"
  /\ folders' = {}
  /\ reminders' = EmptyMap
  /\ tags' = EmptyMap
  /\ UNCHANGED <<now, disk, backups, pending, res>>

\* The data file at start-up: absent, unreadable or not JSON, a document
\* with any subset of the default folders, with or without a user folder
\* and a reminder, or a document with one entry missing or damaged.
StartFiles ==
  {NoFile, CorruptFile}
    \cup { Document(f \cup u, r, updateTags(r)) :
             f \in SUBSET AllDefaults, u \in SUBSET UserFolders,
             r \in {EmptyMap, "r1" :> OldReminder} }
    \cup { File(f, r, t) :
             f \in {Absent, Malformed, Entries(UserFolders),
                    Entries(UserFolders \cup {"inbox"})},
             r \in {Absent, Malformed, Entries("r1" :> OldReminder)},
             t \in {Absent, Malformed, Entries(EmptyMap)} }

LoadInit ==
  /\ phase = "start"
  /\ now = 1
  /\ folders = {}
  /\ reminders = EmptyMap
  /\ tags = EmptyMap
  /\ disk \in StartFiles
  /\ backups = OldBackups
  /\ pending = 0
  /\ res = Reply("", 0)

LoadCreates == { [title |-> Title], [title |-> Title, dueDate |-> DueBad] }

LoadNext ==
  \/ LoadData
  \/ Restart
  \/ BackupRun(FALSE)
  \/ \E body \in FolderBodies : PostFolder(body)
  \/ \E id \in UserFolders \cup {"today", "inbox"} : DeleteFolder(id)
  \/ \E body \in LoadCreates : PostReminder(OneId, body)

LoadSpec == LoadInit /\ [][LoadNext]_vars

----------------------------------------------------------------------------
(* ListSpec: the two listings over any three stored reminders, created at   *)
(* times 1, 2 and 3, in any insertion order.                                *)

ListIds == <<"r1", "r2", "r3">>

Priorities == {"high", "normal", "low", "urgent"}

DueDates == {Null, Val(0), Val(5), Val(6)}

ListReminder(t, c, pr, d) ==
  [OldReminder EXCEPT !.folderId = "inbox", !.createdAt = t, !.completed = c,
                      !.completedAt = IF c THEN Val(t) ELSE Null,
                      !.priority = pr, !.dueDate = d]

ListInit ==
  /\ phase = "running"
  /\ now = Len(ListIds)
  /\ folders = AllDefaults
  /\ \E c \in [1..Len(ListIds) -> BOOLEAN],
        pr \in [1..Len(ListIds) -> Priorities],
        d \in [1..Len(ListIds) -> DueDates] :
       reminders = [id \in {ListIds[i] : i \in 1..Len(ListIds)} |->
                      LET t == CHOOSE i \in 1..Len(ListIds) : ListIds[i] = id
                      IN  ListReminder(t, c[t], pr[t], d[t])]
  /\ tags = updateTags(reminders)
  /\ disk = Document(folders, reminders, tags)
  /\ backups = OldBackups
  /\ pending = 0
  /\ res = Reply("", 0)

\* Every order of the three ids.
ListOrders == Orders({ ListIds[i] : i \in 1..Len(ListIds) })

ListNext ==
  \/ \E order \in ListOrders, query \in Queries : GetReminders(order, query)
  \/ \E secret \in Secrets, order \in ListOrders :
       GetExternalReminders(secret, order, EmptyMap)

ListSpec == ListInit /\ [][ListNext]_vars

----------------------------------------------------------------------------
(* TagSpec: the tag map over reminders whose title and notes hold tags in   *)
(* either case, repeated, glued to a word, or a lone hash sign.  The bulk   *)
(* delete of the assistant endpoint leaves the map stale until the timer.   *)

TagTitles ==
  { <<"#", "A">>,
    <<"#", "a", Space, "#", "A", "b">>,
    <<"b", "#", "a", "#", "A">>,
    <<"#", Space, "a">> }

TagNotes == { <<"#", "a", "b">>, <<"b">> }

TagCreates ==
  { [title |-> t] : t \in TagTitles }
    \cup { [title |-> t, notes |-> n] : t \in TagTitles, n \in TagNotes }

TagDeletes == { [action |-> "delete", ids |-> <<id>>] : id \in RemIds }

TagNext ==
  \/ LoadData
  \/ BackupRun(FALSE)
  \/ RefreshTags
  \/ \E body \in TagCreates : PostReminder(RemIds, body)
  \/ \E body \in TagDeletes : ExternalBulk(API_SECRET, body)

TagSpec == Init /\ [][TagNext]_vars

----------------------------------------------------------------------------
(* SaveSpec: saves by handlers and by the 30-second timer, the timer's      *)
(* write seen step by step, and backup.sh running beside the server.  The   *)
(* data file may be one the process cannot write.                           *)

SaveFiles == {NoFile, CorruptFile, LockedFile}

SaveInit ==
  /\ phase = "start"
  /\ now = 1
  /\ folders = {}
  /\ reminders = EmptyMap
  /\ tags = EmptyMap
  /\ disk \in SaveFiles
  /\ backups = OldBackups
  /\ pending = 0
  /\ res = Reply("", 0)

SaveCreates == { [title |-> Title], EmptyMap }

SaveNext ==
  \/ LoadData
  \/ Tick(MaxTime)
  \/ BeginSave
  \/ EndSave
  \/ \E copied \in BOOLEAN : BackupRun(copied)
  \/ \E body \in SaveCreates : PostReminder(RemIds, body)
  \/ \E id \in RemIds : DeleteReminder(id)

SaveSpec == SaveInit /\ [][SaveNext]_vars

----------------------------------------------------------------------------
(* TitleSpec: the titles that the two create routes and PATCH accept.       *)

TitleBodies ==
  { [title |-> Title],
    [title |-> <<Space, "A", Space>>],
    [title |-> <<Space>>],
    [title |-> <<>>],
    EmptyMap }

TitlePatches ==
  { [title |-> <<"B">>],
    [title |-> <<Space>>],
    [title |-> <<>>],
    [notes |-> <<"n">>] }

TitleNext ==
  \/ LoadData
  \/ BackupRun(FALSE)
  \/ \E body \in TitleBodies : PostReminder(RemIds, body)
  \/ \E secret \in Secrets, body \in TitleBodies :
       ExternalReminder(secret, RemIds, body)
  \/ \E id \in RemIds, body \in TitlePatches : PatchReminder(id, body)
  \/ \E id \in RemIds : DeleteReminder(id)

TitleSpec == Init /\ [][TitleNext]_vars

----------------------------------------------------------------------------
(* EntitySpec: the routes that address one reminder, one folder or one      *)
(* sub-task by id, with ids that exist and ids that do not.                 *)

EntityCreates ==
  { [title |-> Title],
    [title |-> Title, folderId |-> "f1"],
    [title |-> Title, subtasks |-> <<[title |-> SubTitle, completed |-> FALSE]>>] }

EntityPatches == { [completed |-> TRUE], [notes |-> <<"n">>] }

EntityFolders == UserFolders \cup {"inbox", UnknownId}

EntityNext ==
  \/ LoadData
  \/ BackupRun(FALSE)
  \/ \E body \in FolderBodies : PostFolder(body)
  \/ \E id \in EntityFolders : DeleteFolder(id)
  \/ \E body \in EntityCreates : PostReminder(OneId, body)
  \/ \E id \in LifeTargets : GetReminder(id)
  \/ \E id \in LifeTargets, body \in EntityPatches : PatchReminder(id, body)
  \/ \E id \in LifeTargets : DeleteReminder(id)
  \/ \E id \in LifeTargets, body \in SubtaskBodies : PostSubtask(id, body)
  \/ \E id \in LifeTargets, subId \in SubIds(OneId), body \in SubtaskPatches :
       PatchSubtask(id, subId, body)
  \/ \E id \in LifeTargets, subId \in SubIds(OneId) : DeleteSubtask(id, subId)

EntitySpec == Init /\ [][EntityNext]_vars

----------------------------------------------------------------------------
(* AuthSpec: requests that pass through app.use('/api', requireAuth), with  *)
(* and without a token and with every answer of the identity service, and   *)
(* the assistant routes, which are registered before it.                    *)

\* A URL path as its segments: /api/reminders is <<"api", "reminders">>.
ApiRoutes ==
  { [op |-> "POST /api/reminders", url |-> <<"api", "reminders">>],
    [op |-> "DELETE /api/reminders/:id", url |-> <<"api", "reminders", "r1">>],
    [op |-> "POST /api/folders", url |-> <<"api", "folders">>],
    [op |-> "DELETE /api/folders/:id", url |-> <<"api", "folders", "f1">>] }

\* req.query.token || req.cookies[COOKIE_NAME] || the Authorization header
Tokens == {Null, Val("t")}

\* fetch(`${AUTH_SERVICE}/api/verify`): response.ok, a response that is not
\* ok, or a fetch that throws.
Verdicts == {"ok", "rejected", "unreachable"}

\* req.path inside a middleware mounted with app.use(mount, ...): the
\* request's path with the mount point taken off.
MountedPath(url, mount) ==
  IF Len(url) >= Len(mount) /\ SubSeq(url, 1, Len(mount)) = mount
    THEN SubSeq(url, Len(mount) + 1, Len(url))
    ELSE url

\* req.path.startsWith('/api/')
StartsWithApi(path) == Len(path) >= 2 /\ path[1] = "api"

\* The refusal of requireAuth: 401 with loginUrl for an API path, otherwise
\* a redirect to the login page.
Refusal(path) == IF StartsWithApi(path) THEN 401 ELSE 302

\* requireAuth: 0 stands for next().
requireAuth(url, token, verdict) ==
  IF ~TruthyStr(token) THEN Refusal(MountedPath(url, <<"api">>))
  ELSE IF verdict = "ok" THEN 0
  ELSE Refusal(MountedPath(url, <<"api">>))

Handler(op) ==
  CASE op = "POST /api/reminders" -> PostReminder(OneId, [title |-> Title])
    [] op = "DELETE /api/reminders/:id" -> DeleteReminder("r1")
    [] op = "POST /api/folders" -> PostFolder([name |-> <<"b">>])
    [] op = "DELETE /api/folders/:id" -> DeleteFolder("f1")

Refused(op, status) ==
  /\ phase = "running"
  /\ res' = Reply(op, status)
  /\ UNCHANGED <<phase, now, folders, reminders, tags, disk, backups, pending>>

\* A request to a route registered after app.use('/api', requireAuth)
ApiRequest(route, token, verdict) ==
  IF requireAuth(route.url, token, verdict) = 0
    THEN Handler(route.op)
    ELSE Refused(route.op, requireAuth(route.url, token, verdict))

AuthBulks == { [action |-> "delete", ids |-> <<"r1">>] }

AuthNext ==
  \/ LoadData
  \/ BackupRun(FALSE)
  \/ \E route \in ApiRoutes, token \in Tokens, verdict \in Verdicts :
       ApiRequest(route, token, verdict)
  \/ \E secret \in Secrets : ExternalReminder(secret, OneId, [title |-> Title])
  \/ \E secret \in Secrets, body \in AuthBulks : ExternalBulk(secret, body)

AuthSpec == Init /\ [][AuthNext]_vars

----------------------------------------------------------------------------
(* PatchSpec: PATCH of one reminder with bodies of several fields, whose    *)
(* values the handler can process, and with bodies in which one value is of *)
(* a type it cannot.                                                        *)

PatchBodies ==
  { [title |-> <<"#", "b">>],
    [notes |-> <<"#", "a">>, completed |-> TRUE],
    [title |-> <<"#", "b">>, folderId |-> "f1", completed |-> TRUE] }

\* The well-typed fields of a body and the field that holds a value of the
\* wrong type: a number for title or notes, null or a string for subtasks.
BadPatches ==
  { [body |-> [completed |-> TRUE], bad |-> "title"],
    [body |-> [title |-> <<"#", "b">>], bad |-> "notes"],
    [body |-> [title |-> <<"#", "b">>, completed |-> TRUE], bad |-> "subtasks"],
    [body |-> [folderId |-> "f1"], bad |-> "subtasks"] }

PatchNext ==
  \/ LoadData
  \/ Tick(MaxTime)
  \/ BackupRun(FALSE)
  \/ PostReminder(OneId, [title |-> Title])
  \/ \E id \in LifeTargets, body \in PatchBodies : PatchReminder(id, body)
  \/ \E id \in LifeTargets, patch \in BadPatches :
       PatchReminderThrows(id, patch.body, patch.bad)
  \/ \E id \in LifeTargets : DeleteReminder(id)

PatchSpec == Init /\ [][PatchNext]_vars

----------------------------------------------------------------------------
(* SubtaskSpec: one reminder and its sub-task list, of up to MaxList        *)
(* entries, under every route that writes the list.                         *)

ListSubIds == { SubId(id, i) : id \in OneId, i \in 0..MaxList }

NewSub == [title |-> SubTitle, completed |-> FALSE]

SubtaskCreates ==
  { [title |-> Title],
    [title |-> Title, subtasks |-> <<NewSub, NewSub>>] }

\* Lists sent with PATCH: entries of the stored list carry their id, new
\* entries carry none.
SubtaskLists ==
  { <<>>,
    <<[id |-> SubId("r1", 0), title |-> SubTitle, completed |-> TRUE], NewSub>>,
    <<NewSub, [id |-> SubId("r1", 0), title |-> SubTitle, completed |-> FALSE]>> }

SubtaskNext ==
  \/ LoadData
  \/ BackupRun(FALSE)
  \/ \E body \in SubtaskCreates : PostReminder(OneId, body)
  \/ \E list \in SubtaskLists : PatchReminder("r1", [subtasks |-> list])
  \/ \E id \in LifeTargets, body \in SubtaskBodies : AddSubtask(id, body, MaxList)
  \/ \E id \in LifeTargets, subId \in ListSubIds, body \in SubtaskPatches :
       PatchSubtask(id, subId, body)
  \/ \E id \in LifeTargets, subId \in ListSubIds : DeleteSubtask(id, subId)

SubtaskSpec == Init /\ [][SubtaskNext]_vars

----------------------------------------------------------------------------
(* Claims *)

Stored == DOMAIN reminders

\* C1: in every reachable state every stored reminder is completed if and
\* only if its completedAt is non-null.
C1_CompletedIffCompletedAt ==
  \A id \in Stored : reminders[id].completed <=> reminders[id].completedAt # Null

\* A reminder completed after the clock has advanced, with a sub-task.
C1_Witness ==
  \E id \in Stored :
    /\ reminders[id].completed
    /\ reminders[id].completedAt = Val(2)
    /\ Len(reminders[id].subtasks) > 0

\* C2: completedAt is written only when the completed flag changes: set to
\* the current time on false-to-true, cleared on true-to-false, and left as
\* it is by every step that does not change the flag.
C2_CompletedAtOnlyOnTransition ==
  [][\A id \in Stored \cap DOMAIN reminders' :
       LET a == reminders[id]
           b == reminders'[id]
       IN  /\ (a.completed = b.completed) => (b.completedAt = a.completedAt)
           /\ (~a.completed /\ b.completed) => (b.completedAt = Val(now))
           /\ (a.completed /\ ~b.completed) => (b.completedAt = Null)]_vars

\* C3: a DELETE of a folder F other than inbox leaves F absent from the
\* folder collection, every reminder that was in F in inbox, no reminder in
\* F, and every other reminder where it was.
C3_DeleteFolderReassigns ==
  [][\A f \in UserFolders \cup {UnknownId} :
       DeleteFolder(f) =>
         /\ f \notin folders'
         /\ DOMAIN reminders' = Stored
         /\ \A id \in Stored :
              /\ reminders'[id].folderId # f
              /\ reminders[id].folderId = f => reminders'[id].folderId = "inbox"
              /\ reminders[id].folderId # f => reminders'[id] = reminders[id]]_vars

\* The folder f1 has just been deleted, and a reminder that the last backup
\* shows in f1 is in inbox.
C3_Witness ==
  /\ res = Reply("DELETE /api/folders/:id", 200)
  /\ "f1" \notin folders
  /\ \E n \in DOMAIN backups, id \in Stored :
       /\ n > 0
       /\ id \in DOMAIN backups[n].reminders.v
       /\ backups[n].reminders.v[id].folderId = "f1"
       /\ reminders[id].folderId = "inbox"

\* C4: once start-up load has finished the folder inbox is in the folder
\* collection in every reachable state, and a DELETE of inbox is answered
\* 400 and changes nothing.
C4_InboxAlwaysPresent ==
  [][/\ phase' = "running" => "inbox" \in folders'
     /\ DeleteFolder("inbox") =>
          /\ res' = Reply("DELETE /api/folders/:id", 400)
          /\ UNCHANGED <<folders, reminders, tags, disk, pending>>]_vars

\* C5: a sweep at time now resets every reminder of kind daily, weekly or
\* monthly that was completed at least one interval ago: completed false,
\* completedAt null, createdAt now, and the due date, when there is one,
\* its previous value plus one interval.
C5_SweepResets ==
  [][\A id \in Stored :
       LET r == reminders[id]
       IN  (/\ Sweep
            /\ r.recurring \in {Val("daily"), Val("weekly"), Val("monthly")}
            /\ r.completed
            /\ r.completedAt # Null
            /\ now - r.completedAt[1] >= RECURRING_INTERVALS[r.recurring[1]])
           => /\ ~reminders'[id].completed
              /\ reminders'[id].completedAt = Null
              /\ reminders'[id].createdAt = now
              /\ reminders'[id].dueDate =
                   IF r.dueDate = Null
                     THEN Null
                     ELSE Val(r.dueDate[1] + RECURRING_INTERVALS[r.recurring[1]])]_vars

Awaiting(id) ==
  /\ id \in Stored
  /\ reminders[id].completed
  /\ reminders[id].recurring \in {Val("daily"), Val("weekly"), Val("monthly")}

\* C7: with the sweep timer firing and the clock advancing, every completed
\* reminder of kind daily, weekly or monthly eventually is incomplete again.
C7_CompletedRecurringIsReset ==
  \A id \in OneId : Awaiting(id) ~> ~reminders[id].completed

\* A monthly reminder that was completed has been reset by a sweep, and the
\* clock has reached its last instant.
C7_Witness ==
  \E id \in Stored :
    /\ reminders[id].recurring = Val("monthly")
    /\ ~reminders[id].completed
    /\ reminders[id].createdAt > MaxTime
    /\ now = Horizon

\* The positions of a bulk request's list that name a stored reminder.
Listed(body) == { i \in 1..Len(body.ids) : body.ids[i] \in Stored }

ListedIds(body) == { body.ids[i] : i \in Listed(body) }

\* A step of either bulk endpoint that gets past authentication and the
\* check of the id list.
BulkStep(body) ==
  /\ Len(body.ids) > 0
  /\ PostBulk(body) \/ ExternalBulk(API_SECRET, body)

\* The state the action prescribes for a stored reminder r.
Prescribed(r, body) ==
  IF body.action = "complete"
    THEN [r EXCEPT !.completed = TRUE, !.completedAt = Val(now)]
  ELSE IF body.action = "uncomplete"
    THEN [r EXCEPT !.completed = FALSE, !.completedAt = Null]
  ELSE [r EXCEPT !.folderId = body.folderId]

\* C8 (as stated): a bulk request with a non-empty id list returns as updated
\* the number of listed ids that exist in the collection, whether the list's
\* entries or the distinct ids are counted.
C8_UpdatedCountsExisting ==
  [][\A body \in BulkBodies :
       BulkStep(body) =>
         /\ res'.status = 200
         /\ res'.updated \in
              {Cardinality(Listed(body)), Cardinality(ListedIds(body))}]_vars

\* C8 (amended): the count is the number of list entries that name a
\* reminder present when the entry is processed and to which the action
\* applies: every entry naming a stored reminder for complete, uncomplete
\* and move with a folderId, every distinct stored id for delete, and none
\* for move without a folderId, which changes nothing.  Each listed stored
\* reminder ends as the action prescribes, unknown ids are skipped, and
\* reminders not listed are unchanged.
C8_BulkAppliesPerEntry ==
  [][\A body \in BulkBodies :
       BulkStep(body) =>
         /\ res'.status = 200
         /\ IF body.action = "move" /\ ~Has(body, "folderId")
              THEN res'.updated = 0 /\ reminders' = reminders
            ELSE IF body.action = "delete"
              THEN /\ res'.updated = Cardinality(ListedIds(body))
                   /\ DOMAIN reminders' = Stored \ ListedIds(body)
              ELSE /\ res'.updated = Cardinality(Listed(body))
                   /\ DOMAIN reminders' = Stored
                   /\ \A id \in ListedIds(body) :
                        reminders'[id] = Prescribed(reminders[id], body)
         /\ \A id \in Stored \ ListedIds(body) :
              id \in DOMAIN reminders' /\ reminders'[id] = reminders[id]]_vars

\* A bulk complete has counted two reminders, and both are completed.
C8_Witness ==
  /\ res = [op |-> "POST /api/bulk", status |-> 200, updated |-> 2]
  /\ Stored = RemIds
  /\ \A id \in Stored :
       reminders[id].completed /\ reminders[id].completedAt = Val(now)

\* C9: a restore request that names a backup file which does not exist is
\* answered 404, leaves the folder, reminder and tag collections as they
\* were, and triggers no save.
C9_RestoreMissingFile ==
  [][\A body \in RestoreBodies :
       (/\ PostRestore(body)
        /\ Has(body, "backupFile")
        /\ body.backupFile \notin DOMAIN backups)
       => /\ res' = Reply("POST /api/restore", 404)
          /\ UNCHANGED <<folders, reminders, tags, disk, pending>>]_vars

\* A restore has been answered 404 while the server holds a user folder and
\* a reminder.
C9_Witness ==
  /\ res = Reply("POST /api/restore", 404)
  /\ "f1" \in folders
  /\ Stored # {}

\* C10: a restore request that ends in an error leaves all three in-memory
\* collections as they were before the request.
C10_RestoreAllOrNothing ==
  [][\A body \in RestoreBodies :
       (PostRestore(body) /\ res'.status = 500) =>
         UNCHANGED <<folders, reminders, tags>>]_vars

\* What loadData() makes of the document a save of the current collections
\* writes.
ReloadedFolders ==
  createDefaultFolders(
    LoadedFolders(Document(folders, reminders, tags)) \cup {"inbox"})

ReloadedReminders == LoadedReminders(Document(folders, reminders, tags))

\* C11: round trip: in every state reachable through the API, a save
\* followed by a load gives the folder and reminder collections the same ids
\* and the same field values as before the save.
C11_SaveLoadRoundTrip ==
  phase = "running" =>
    /\ ReloadedFolders = folders
    /\ ReloadedReminders = reminders

\* C12: after load completes the folder collection holds inbox and the four
\* smart folders, whatever the data file was, and load always completes.
C12_LoadEnsuresDefaults ==
  [][LoadData =>
       /\ phase' = "running"
       /\ {"inbox", "today", "scheduled", "all", "completed"} \subseteq folders'
       /\ LoadedFolders(disk) \subseteq folders']_vars

\* Load has completed on a document whose folders entry was read and whose
\* reminders entry made new Map throw: the user folder is kept, the
\* reminders are empty and the defaults are there.
C12_Witness ==
  /\ phase = "running"
  /\ "f1" \in folders
  /\ AllDefaults \subseteq folders
  /\ disk.exists /\ disk.json /\ disk.reminders = Malformed
  /\ reminders = EmptyMap

\* The reminders of the last listing, in the order of the response.
IsListing == res.status = 200 /\ "list" \in DOMAIN res

Item(i) == reminders[res.list[i]]

Ranked(r) == r.priority \in {"high", "normal", "low"}

Rank(r) == CASE r.priority = "high" -> 0
             [] r.priority = "normal" -> 1
             [] r.priority = "low" -> 2

\* C13: in a listing, for every two adjacent results a before b: incomplete
\* precedes completed; among equal completion the lower priority rank comes
\* first; among equal priority a reminder with a due date precedes one
\* without, two with due dates are in ascending due-date order, and two
\* without are in descending creation-time order.
C13_ListingOrder ==
  IsListing =>
    \A i \in 1..(Len(res.list) - 1) :
      LET a == Item(i)
          b == Item(i + 1)
      IN  /\ ~(a.completed /\ ~b.completed)
          /\ (a.completed = b.completed /\ Ranked(a) /\ Ranked(b))
               => Rank(a) <= Rank(b)
          /\ (a.completed = b.completed /\ a.priority = b.priority) =>
               /\ b.dueDate # Null => a.dueDate # Null
               /\ (a.dueDate # Null /\ b.dueDate # Null)
                    => a.dueDate[1] <= b.dueDate[1]
               /\ (a.dueDate = Null /\ b.dueDate = Null)
                    => a.createdAt >= b.createdAt

Sign(n) == IF n < 0 THEN -1 ELSE IF n > 0 THEN 1 ELSE 0

\* C14: over the stored reminders the comparator is a consistent total
\* preorder: the sign of cmp(a, b) is the opposite of the sign of cmp(b, a),
\* cmp(a, b) <= 0 and cmp(b, c) <= 0 give cmp(a, c) <= 0, and comparing
\* equal is transitive.
C14_ComparatorConsistent ==
  \A x, y, z \in Stored :
    LET a == reminders[x]
        b == reminders[y]
        c == reminders[z]
    IN  /\ Sign(SortCompare(a, b)) = -Sign(SortCompare(b, a))
        /\ (SortCompare(a, b) <= 0 /\ SortCompare(b, c) <= 0)
             => SortCompare(a, c) <= 0
        /\ (SortCompare(a, b) = 0 /\ SortCompare(b, c) = 0)
             => SortCompare(a, c) = 0

\* C15: in a listing every reminder whose priority is not high, normal or
\* low comes after every reminder of the same completion status whose
\* priority is one of the three.
C15_UnknownPriorityLast ==
  IsListing =>
    \A i, j \in 1..Len(res.list) :
      (i < j /\ Item(i).completed = Item(j).completed /\ Ranked(Item(j)))
        => Ranked(Item(i))

\* The text of a stored reminder in which tags are looked for.
TextOf(id) == reminders'[id].title \o <<" ">> \o reminders'[id].notes

Lower(c) == IF c = "A" THEN "a" ELSE c

\* The token that starts with the hash sign at position i of the text of
\* reminder id is the tag t: the hash sign and the whole run of word
\* characters behind it, lower-cased.
TokenAt(id, i, t) ==
  /\ TextOf(id)[i] = "#"
  /\ Len(t) >= 2
  /\ i + Len(t) - 1 <= Len(TextOf(id))
  /\ \A k \in 1..Len(t) : t[k] = Lower(TextOf(id)[i + k - 1])
  /\ \A k \in 2..Len(t) : TextOf(id)[i + k - 1] \in {"a", "A", "b"}
  /\ i + Len(t) <= Len(TextOf(id)) => TextOf(id)[i + Len(t)] \notin {"a", "A", "b"}

TokenCount(t) ==
  Cardinality(UNION { { <<id, i>> : i \in { j \in 1..Len(TextOf(id)) :
                                               TokenAt(id, j, t) } } :
                      id \in DOMAIN reminders' })

TagUniverse == UNION { [1..n -> {"#", "a", "b"}] : n \in 1..3 }

\* C16: a tag rebuild leaves, for every tag, the number of its tokens in the
\* title-plus-notes texts of the current reminders and no entry for a tag
\* without tokens, whatever the map held before, and a second rebuild gives
\* the same map.
C16_TagRebuild ==
  [][RefreshTags =>
       /\ DOMAIN tags' \subseteq TagUniverse
       /\ \A t \in TagUniverse :
            IF TokenCount(t) = 0
              THEN t \notin DOMAIN tags'
              ELSE t \in DOMAIN tags' /\ tags'[t] = TokenCount(t)
       /\ updateTags(reminders') = tags']_vars

\* The timer has rebuilt a stale map: the only reminder left holds the tag
\* #a once and the tag #ab once, and the save before it wrote other counts.
C16_Witness ==
  /\ Cardinality(Stored) = 1
  /\ tags = (<<"#", "a">> :> 1) @@ (<<"#", "a", "b">> :> 1)
  /\ disk.exists /\ disk.json /\ disk.tags # Entries(tags)

\* A step in which saveData() runs to its end.
SaveCall ==
  \/ EndSave
  \/ \E body \in SaveCreates : PostReminder(RemIds, body) /\ res'.status = 200
  \/ \E id \in RemIds : DeleteReminder(id)

C18_BackupsAreWhole ==
  \A n \in DOMAIN backups : n >= 1 => Readable(backups[n])

\* C19: every stored reminder has a title that is non-empty after trimming.
\* A create with a missing, empty or blank title answers 400 and stores
\* nothing, and no later operation leaves a stored reminder without a title.
C19_TitleNeverEmpty ==
  \A id \in Stored : Trim(reminders[id].title) # <<>>

\* A request that names a reminder, a sub-task or a folder that is not stored.
MissedReminder ==
  \E id \in LifeTargets :
    /\ id \notin Stored
    /\ \/ GetReminder(id)
       \/ DeleteReminder(id)
       \/ \E body \in EntityPatches : PatchReminder(id, body)
       \/ \E body \in SubtaskBodies : PostSubtask(id, body)

MissedSubtask ==
  \E id \in LifeTargets, subId \in SubIds(OneId) :
    /\ id \notin Stored \/ FindSubtask(reminders[id].subtasks, subId) = 0
    /\ \/ DeleteSubtask(id, subId)
       \/ \E body \in SubtaskPatches : PatchSubtask(id, subId, body)

MissedFolder ==
  \E id \in EntityFolders \ {"inbox"} : id \notin folders /\ DeleteFolder(id)

\* C20: an operation on one reminder, folder or sub-task whose id is not in
\* the collection answers 404 and changes no collection.
C20_UnknownIdIs404 ==
  [][MissedReminder \/ MissedSubtask \/ MissedFolder =>
       res'.status = 404 /\ UNCHANGED <<folders, reminders, tags>>]_vars

AllDone(subs) == Len(subs) > 0 /\ \A i \in 1..Len(subs) : subs[i].completed

SubtaskPatch200(id) ==
  /\ \E subId \in ListSubIds, body \in SubtaskPatches :
       PatchSubtask(id, subId, body)
  /\ res'.status = 200

\* C21: after a sub-task PATCH that was applied, a reminder whose sub-task
\* list is non-empty and wholly completed is completed with completedAt set;
\* otherwise the PATCH leaves the parent's completion alone, and a reminder
\* with no sub-tasks is not changed by this route.
C21_SubtaskPatchCompletesParent ==
  [][\A id \in LifeTargets :
       /\ SubtaskPatch200(id) =>
            IF AllDone(reminders'[id].subtasks)
              THEN /\ reminders'[id].completed = TRUE
                   /\ reminders'[id].completedAt = Val(now)
              ELSE /\ reminders'[id].completed = reminders[id].completed
                   /\ reminders'[id].completedAt = reminders[id].completedAt
       /\ (/\ id \in Stored
           /\ reminders[id].subtasks = <<>>
           /\ \E subId \in ListSubIds, body \in SubtaskPatches :
                PatchSubtask(id, subId, body)) =>
            res'.status = 404 /\ reminders' = reminders]_vars

\* The PATCH of the last open sub-task of two has completed the parent.
C21_Witness ==
  /\ res.op = "PATCH /api/reminders/:id/subtasks/:subId"
  /\ res.status = 200
  /\ "r1" \in Stored
  /\ Len(reminders["r1"].subtasks) = 2
  /\ AllDone(reminders["r1"].subtasks)
  /\ reminders["r1"].completed = TRUE
  /\ reminders["r1"].completedAt = Val(now)

\* A request that carries no token, or a token that the identity service
\* rejects or cannot be asked about.
Unauthenticated ==
  \E route \in ApiRoutes, token \in Tokens, verdict \in Verdicts :
    /\ ~TruthyStr(token) \/ verdict # "ok"
    /\ ApiRequest(route, token, verdict)

WrongSecret ==
  \E secret \in Secrets \ {API_SECRET} :
    \/ ExternalReminder(secret, OneId, [title |-> Title])
    \/ \E body \in AuthBulks : ExternalBulk(secret, body)

\* C22: an assistant request with a wrong secret, and any other /api
\* request without a successfully verified token, is answered 401 and
\* changes no state.
C22_UnauthenticatedIs401 ==
  [][Unauthenticated \/ WrongSecret =>
       /\ res'.status = 401
       /\ UNCHANGED <<folders, reminders, tags, disk, backups, pending>>]_vars

\* The data file holds the folders and the reminders that are in memory.
FileCurrent ==
  /\ Readable(disk)
  /\ disk.folders = Document(folders, reminders, tags).folders
  /\ disk.reminders = Document(folders, reminders, tags).reminders

\* C23: after the start-up load, and after every step of the running server
\* that changed the folders or the reminders, the data file holds the
\* folders and the reminders that are in memory.
C23_FileFollowsMemory ==
  [][\/ LoadData
     \/ /\ phase = "running" /\ phase' = "running"
        /\ <<folders, reminders>>' # <<folders, reminders>>
     => FileCurrent']_vars

\* The cases in which the sweep at time t is to leave the reminder r alone.
Exempt(r, t) ==
  \/ r.recurring = Null
  \/ ~r.completed
  \/ r.completedAt = Null
  \/ r.recurring[1] \notin DOMAIN RECURRING_INTERVALS
  \/ t - r.completedAt[1] < RECURRING_INTERVALS[r.recurring[1]]

\* C24: a sweep changes no field of a reminder that is not recurring, not
\* completed, without completedAt, of a recurrence kind without an interval,
\* or completed less than its interval ago; and a sweep that resets no
\* reminder does not save.
C24_SweepFrame ==
  [][Sweep =>
       /\ \A id \in Stored :
            Exempt(reminders[id], now) => reminders'[id] = reminders[id]
       /\ (\A id \in Stored : reminders'[id] = reminders[id]) =>
            UNCHANGED <<disk, pending>>]_vars

\* A sweep at the current instant has reset r1, and has left r2 alone, which
\* was completed less than its interval ago.
C24_Witness ==
  /\ Stored = {"r1", "r2"}
  /\ ~reminders["r1"].completed
  /\ reminders["r1"].recurring = Val("daily")
  /\ reminders["r1"].createdAt = now
  /\ now > 1
  /\ pending > 0
  /\ reminders["r2"].recurring = Val("weekly")
  /\ reminders["r2"].completed
  /\ now - reminders["r2"].completedAt[1] < RECURRING_INTERVALS.weekly

\* C25: after every request handler that created, changed or deleted a
\* reminder, the tag map is the one that a rebuild from the reminders gives.
C25_TagsFollowReminders ==
  [][(phase = "running" /\ phase' = "running" /\ reminders' # reminders)
       => tags' = updateTags(reminders')]_vars

\* C26: within one reminder no two sub-tasks have the same id.
C26_SubtaskIdsDistinct ==
  \A id \in Stored :
    \A i, j \in 1..Len(reminders[id].subtasks) :
      reminders[id].subtasks[i].id = reminders[id].subtasks[j].id => i = j

\* C27: a PATCH of a reminder that fails while it applies the fields leaves
\* every field of the stored reminder as it was, with the tag map and the
\* data file in step with the reminders.
C27_PatchAllOrNothing ==
  [][(\E id \in LifeTargets, patch \in BadPatches :
        PatchReminderThrows(id, patch.body, patch.bad) /\ res'.status = 500)
       => /\ reminders' = reminders
          /\ tags' = updateTags(reminders')
          /\ disk'.reminders = Document(folders', reminders', tags').reminders]_vars

====
